---- MODULE Spec2Model ----
(***************************************************************************)
(* Backup-compliance reconciliation (L2Backup): the snapshot evaluators,   *)
(* the reconcile drivers with their remediation trigger, the catalog       *)
(* matchers and the ticket synchronizer, modelled from the Python sources. *)
(*                                                                         *)
(* Time is counted in hours since an epoch at 00:00 UTC.  A timestamp the  *)
(* parsers reject (and the "N/A" the programs print for it) is NA.         *)
(***************************************************************************)
EXTENDS Integers, Sequences, FiniteSets, TLC

(***************************************************************************)
(* Program constants.                                                      *)
(***************************************************************************)
HoursPerDay == 24
STALE_HOURS == 24
STATUS_WINDOW_HOURS == 24
STATUS_WINDOW_DAYS == 2
COUNT_WINDOW_DAYS == 60
CT_MAX_AGE_HOURS == 24

(***************************************************************************)
(* Bounds of the model.                                                    *)
(***************************************************************************)
MaxSnaps == 2
MaxTick == 6

NA == 0 - 1
TickHours == STATUS_WINDOW_HOURS \div 2
Dates == {k * TickHours : k \in 0..MaxTick}
NowSet == {2 * HoursPerDay, 2 * HoursPerDay + TickHours}

\* the UTC calendar day of a timestamp (datetime.date())
DayOf(t) == t \div HoursPerDay

\* sequences over S of length at most n
SeqUpTo(S, n) == UNION {[1..k -> S] : k \in 0..n}

VARIABLES
    now,        \* datetime.now(timezone.utc) of the run
    ev,         \* the evaluator under test
    qres,       \* outcome of the snapshot query transport: "ok", "none"
    edges,      \* the snapshot nodes the source returned, in its order
    seen,       \* the results the evaluator produced for this snapshot set
    seenw       \* the last evaluation under configured windows, or <<>>

evalVars == <<ev, qres, edges, seen, seenw>>

VARIABLES
    prog,       \* the reconcile driver that runs: "combined", "trigger"
    tickets,    \* tickets.json as the ticket synchronizer reads it
    servers,    \* the servers the loop has still to process, in loop order
    pc,         \* position of the driver
    loc,        \* locals of the loop iteration in progress
    rows,       \* the result rows appended so far
    trace,      \* per row: what the platform answered and what was called
    calls,      \* the remediation trigger calls made so far
    report      \* the results written to the report artifact

drvVars == <<prog, tickets, servers, pc, loc, rows, trace, calls, report>>

VARIABLES
    results,    \* update_servicenow: the report results still to process
    patches,    \* the PATCH requests sent to the ticket store
    updated,    \* counter of successful updates
    failed      \* counter of failed updates

syncVars == <<results, patches, updated, failed>>

VARIABLES
    all_objects,  \* the catalog entries ingested at the start of the run
    server_list,  \* the requested names the run iterates over
    matches       \* check_filesets: the matched entries still to check

matchVars == <<all_objects, server_list, matches>>

vars == <<now, ev, qres, edges, seen, seenw,
          prog, tickets, servers, pc, loc, rows, trace, calls, report,
          results, patches, updated, failed,
          all_objects, server_list, matches>>

(***************************************************************************)
(* A snapshot node: date (hours, or NA when absent/unparseable), the       *)
(* isOnDemandSnapshot flag, and the REST status field.                     *)
(***************************************************************************)
\* str.upper() on the status texts
UpperStatus(st) == IF st = "Running" THEN "RUNNING" ELSE st

Snapshot(d, o, st) == [date |-> d, od |-> o, status |-> st]

EvalSnaps == [date : Dates \cup {NA}, od : BOOLEAN, status : {""}]

Evaluators == {"check_backup", "check_filesets", "check", "check_last_backup", "combined"}

\* an evaluation result: verdict, last backup timestamp, window count
Result(s, l, c) == [status |-> s, last |-> l, count |-> c]

(***************************************************************************)
(* check_backup.latest_snapshot_after_cutoff                               *)
(***************************************************************************)
CK_latest_snapshot_after_cutoff(q, es, t) ==
    IF q # "ok" \/ es = <<>> THEN Result("NO", NA, NA)
    ELSE LET d == es[1].date IN
         IF d = NA THEN Result("NO", NA, NA)
         ELSE LET days_diff == DayOf(t) - DayOf(d) IN
              Result(IF days_diff \in {0, 1} THEN "YES" ELSE "NO", d, NA)

(***************************************************************************)
(* check_filesets.latest_snapshot_after_cutoff                             *)
(***************************************************************************)
CF_days_diff(t, d) == DayOf(t) - DayOf(d)

CF_counted(es, t, window) ==
    {i \in 1..Len(es) : /\ es[i].date # NA
                        /\ CF_days_diff(t, es[i].date) >= 0
                        /\ CF_days_diff(t, es[i].date) <= window}

\* the function under the settings status_days and count_days of the environment
CF_evaluate_with(q, es, t, status_days, count_days) ==
    IF q # "ok" \/ es = <<>> THEN Result("NO", NA, 0)
    ELSE LET latest_dt == es[1].date IN
         IF latest_dt = NA THEN Result("NO", NA, 0)
         ELSE Result(IF CF_counted(es, t, status_days) # {} THEN "YES" ELSE "NO",
                     latest_dt,
                     Cardinality(CF_counted(es, t, count_days)))

\* the function under the default settings
CF_latest_snapshot_after_cutoff(q, es, t) ==
    CF_evaluate_with(q, es, t, STATUS_WINDOW_DAYS, COUNT_WINDOW_DAYS)

(***************************************************************************)
(* check.latest_snapshot_after_cutoff                                      *)
(***************************************************************************)
CH_latest_snapshot_after_cutoff(q, es, t) ==
    IF q # "ok" \/ es = <<>> THEN Result("NO", NA, 0)
    ELSE LET snap_dt == es[1].date IN
         IF snap_dt = NA THEN Result("NO", NA, Len(es))
         ELSE LET days_diff == DayOf(t) - DayOf(snap_dt) IN
              Result(IF days_diff \in {0, 1} THEN "YES" ELSE "NO", snap_dt, Len(es))

(***************************************************************************)
(* check_last_backup.run, the per-server snapshot scan                     *)
(***************************************************************************)
CL_usable(es, t) == {i \in 1..Len(es) : es[i].date # NA /\ ~(es[i].date > t)}

SetMax(S) == CHOOSE x \in S : \A y \in S : y <= x

CL_recent_strict(dt, cutoff) == dt > cutoff

\* line 271: dt >= recent_cutoff
CL_recent(dt, cutoff) == dt >= cutoff

CL_backed_up_regular_only(has_recent_regular, has_recent_ondemand) ==
    IF has_recent_regular THEN "YES" ELSE "NO"

\* line 288: backed_up
CL_backed_up(has_recent_regular, has_recent_ondemand) ==
    IF has_recent_regular \/ has_recent_ondemand THEN "YES" ELSE "NO"

CL_counted_strict(dt, count_cutoff) == dt > count_cutoff

\* line 267: dt >= count_cutoff
CL_counted(dt, count_cutoff) == dt >= count_cutoff

\* the scan under the settings status_hours and count_days of the environment
CL_scan_with(q, es, t, status_hours, count_days) ==
    LET es2 == IF q = "ok" THEN es ELSE <<>>
        recent_cutoff == t - status_hours
        count_cutoff == t - count_days * HoursPerDay
        ok == CL_usable(es2, t)
        latest_dt == IF ok = {} THEN NA ELSE SetMax({es2[i].date : i \in ok})
        success_count == Cardinality({i \in ok : CL_counted(es2[i].date, count_cutoff)})
        has_recent_regular == \E i \in ok : CL_recent(es2[i].date, recent_cutoff) /\ ~es2[i].od
        has_recent_ondemand == \E i \in ok : CL_recent(es2[i].date, recent_cutoff) /\ es2[i].od
    IN Result(CL_backed_up(has_recent_regular, has_recent_ondemand),
              latest_dt, success_count)

\* the scan under the default settings
CL_scan(q, es, t) == CL_scan_with(q, es, t, STATUS_WINDOW_HOURS, COUNT_WINDOW_DAYS)

(***************************************************************************)
(* combined_backup_report: RubrikClient.get_latest_snapshot and the        *)
(* freshness test of main                                                  *)
(***************************************************************************)
RECURSIVE CB_best(_, _, _)
\* the scan of lines 221-229: i is the next index, best the pair so far
CB_best(es, i, best) ==
    IF i > Len(es) THEN best
    ELSE LET dt == es[i].date IN
         IF dt = NA THEN CB_best(es, i + 1, best)
         ELSE IF best[1] = NA \/ dt > best[1]
              THEN CB_best(es, i + 1, <<dt, UpperStatus(es[i].status)>>)
              ELSE CB_best(es, i + 1, best)

\* q is "ok" (HTTP 200 with JSON) or not; returns <<best_dt, best_status>>
CB_get_latest_snapshot(q, es) ==
    IF q # "ok" \/ es = <<>> THEN <<NA, "">>
    ELSE CB_best(es, 1, <<NA, "">>)

CB_fresh_strict(last_dt, t) == last_dt # NA /\ last_dt > t - STALE_HOURS

\* lines 350, 376: last_dt and last_dt >= cutoff
CB_fresh(last_dt, t) == last_dt # NA /\ last_dt >= t - STALE_HOURS

CB_evaluate(q, es, t) ==
    LET last_dt == CB_get_latest_snapshot(q, es)[1] IN
    Result(IF CB_fresh(last_dt, t) THEN "YES" ELSE "NO", last_dt, NA)

Evaluate(e, q, es, t) ==
    CASE e = "check_backup" -> CK_latest_snapshot_after_cutoff(q, es, t)
      [] e = "check_filesets" -> CF_latest_snapshot_after_cutoff(q, es, t)
      [] e = "check" -> CH_latest_snapshot_after_cutoff(q, es, t)
      [] e = "check_last_backup" -> CL_scan(q, es, t)
      [] e = "combined" -> CB_evaluate(q, es, t)

\* the window settings the environment may hold: STATUS_WINDOW_HOURS,
\* STATUS_WINDOW_DAYS and COUNT_WINDOW_DAYS
WindowConfig(h, d, c) == [status_hours |-> h, status_days |-> d, count_days |-> c]

WindowConfigs ==
    {WindowConfig(STATUS_WINDOW_HOURS, STATUS_WINDOW_DAYS, COUNT_WINDOW_DAYS),
     WindowConfig(TickHours, 1, 1),
     WindowConfig(STATUS_WINDOW_HOURS, STATUS_WINDOW_DAYS, 1),
     WindowConfig(STATUS_WINDOW_HOURS, 1, STATUS_WINDOW_DAYS)}

\* the evaluators that read their windows from the environment and count
ConfigurableEvaluators == {"check_last_backup", "check_filesets"}

EvaluateWith(e, q, es, t, w) ==
    CASE e = "check_filesets" -> CF_evaluate_with(q, es, t, w.status_days, w.count_days)
      [] e = "check_last_backup" -> CL_scan_with(q, es, t, w.status_hours, w.count_days)

(***************************************************************************)
(* The evaluator specification: one snapshot set, returned by the source   *)
(* in some order, evaluated by one of the programs.                        *)
(***************************************************************************)
DrvIdle ==
    /\ prog = "none"
    /\ tickets = <<>>
    /\ servers = <<>>
    /\ pc = "idle"
    /\ loc = <<>>
    /\ rows = <<>>
    /\ trace = <<>>
    /\ calls = <<>>
    /\ report = <<>>

SyncIdle ==
    /\ results = <<>>
    /\ patches = <<>>
    /\ updated = 0
    /\ failed = 0

MatchIdle ==
    /\ all_objects = <<>>
    /\ server_list = <<>>
    /\ matches = <<>>

EvalIdle ==
    /\ ev = "none"
    /\ qres = "ok"
    /\ edges = <<>>
    /\ seen = {}
    /\ seenw = <<>>

EvalInit ==
    /\ DrvIdle
    /\ SyncIdle
    /\ MatchIdle
    /\ now \in NowSet
    /\ ev \in Evaluators
    /\ \E q \in {"ok", "none"} :
         /\ qres = q
         /\ edges \in (IF q = "ok" THEN SeqUpTo(EvalSnaps, MaxSnaps) ELSE {<<>>})
    /\ seen = {}
    /\ seenw = <<>>

\* the program queries the source and evaluates what it returned
EvaluateSnapshots ==
    /\ ev \in Evaluators
    /\ seen' = seen \cup {Evaluate(ev, qres, edges, now)}
    /\ UNCHANGED <<now, ev, qres, edges, seenw>>
    /\ UNCHANGED drvVars
    /\ UNCHANGED syncVars
    /\ UNCHANGED matchVars

\* the source returns the same snapshots in another order
SourceReorders ==
    /\ ev \in Evaluators
    /\ \E i \in 1..(Len(edges) - 1) :
         /\ edges[i] # edges[i + 1]
         /\ edges' = [edges EXCEPT ![i] = edges[i + 1], ![i + 1] = edges[i]]
    /\ UNCHANGED <<now, ev, qres, seen, seenw>>
    /\ UNCHANGED drvVars
    /\ UNCHANGED syncVars
    /\ UNCHANGED matchVars

\* the program runs with window settings taken from its environment
EvaluateConfigured ==
    /\ ev \in ConfigurableEvaluators
    /\ \E w \in WindowConfigs :
         seenw' = [win |-> w, res |-> EvaluateWith(ev, qres, edges, now, w)]
    /\ UNCHANGED <<now, ev, qres, edges, seen>>
    /\ UNCHANGED drvVars
    /\ UNCHANGED syncVars
    /\ UNCHANGED matchVars

EvalNext == EvaluateSnapshots \/ SourceReorders \/ EvaluateConfigured

SpecEval == EvalInit /\ [][EvalNext]_vars

(***************************************************************************)
(* Strings are sequences of characters, so that str.lower(), str.strip()   *)
(* and the comparisons of names are computed, not assumed.                 *)
(***************************************************************************)
LowerChar(c) ==
    CASE c = "W" -> "w"
      [] c = "D" -> "d"
      [] c = "B" -> "b"
      [] c = "R" -> "r"
      [] c = "I" -> "i"
      [] c = "P" -> "p"
      [] OTHER -> c

\* str.lower()
Lower(s) == [i \in 1..Len(s) |-> LowerChar(s[i])]

RECURSIVE LStrip(_)
LStrip(s) == IF s # <<>> /\ Head(s) = " " THEN LStrip(Tail(s)) ELSE s

RECURSIVE RStrip(_)
RStrip(s) ==
    IF s # <<>> /\ s[Len(s)] = " " THEN RStrip(SubSeq(s, 1, Len(s) - 1)) ELSE s

\* str.strip()
Strip(s) == RStrip(LStrip(s))

\* a in b, for strings
IsSubstr(a, b) ==
    \E i \in 0..(Len(b) - Len(a)) : SubSeq(b, i + 1, i + Len(a)) = a

\* the order of Python's str comparison on the characters used here
CharRank(c) ==
    CASE c = " " -> 0
      [] c = "." -> 1
      [] c = "/" -> 2
      [] c = "1" -> 3
      [] c = "2" -> 4
      [] c = "B" -> 5
      [] c = "D" -> 6
      [] c = "W" -> 7
      [] c = "b" -> 8
      [] c = "d" -> 9
      [] c = "w" -> 10
      [] OTHER -> 11

RECURSIVE StrLess(_, _)
StrLess(a, b) ==
    IF b = <<>> THEN FALSE
    ELSE IF a = <<>> THEN TRUE
    ELSE IF Head(a) = Head(b) THEN StrLess(Tail(a), Tail(b))
    ELSE CharRank(Head(a)) < CharRank(Head(b))

RECURSIVE SortedSeq(_)
\* sorted(S) for a set of strings
SortedSeq(S) ==
    IF S = {} THEN <<>>
    ELSE LET m == CHOOSE x \in S : \A y \in S \ {x} : StrLess(x, y)
         IN <<m>> \o SortedSeq(S \ {m})

\* the orders in which a Python set of strings may be iterated
Orderings(S) ==
    {f \in [1..Cardinality(S) -> S] : \A i, j \in 1..Cardinality(S) : i # j => f[i] # f[j]}

Range(f) == {f[i] : i \in DOMAIN f}

(***************************************************************************)
(* tickets.json and the server lists the drivers derive from it            *)
(***************************************************************************)
MaxTickets == 2

NodeNames == {<<"w">>, <<"W">>, <<"d", " ">>}

\* fetch_servicenow.py gives every ticket the list [node], or [] without a node
NodeLists == {<<>>} \cup {<<n>> : n \in NodeNames}

Ticket(i, ns) == [sys_id |-> i, nodes |-> ns]

TicketLists ==
    UNION {{[i \in 1..k |-> Ticket(i, f[i])] : f \in [1..k -> NodeLists]}
           : k \in 0..MaxTickets}

AllNodes(ts) == UNION {Range(ts[i].nodes) : i \in 1..Len(ts)}

\* combined_backup_report.main, lines 307-314
CB_servers(ts) == SortedSeq({Lower(Strip(n)) : n \in {m \in AllNodes(ts) : Strip(m) # <<>>}})

\* check_and_trigger_backup.main, lines 131-135: a set of the raw nodes
CT_servers(ts) == {n \in AllNodes(ts) : n # <<>>}

(***************************************************************************)
(* The platform's answers to the drivers                                   *)
(***************************************************************************)
MaxCands == 2

NoId == ""
VMItem(i, n, s) == [id |-> i, name |-> n, sla |-> s]
VMItems == {VMItem("v1", <<"W">>, "gold"), VMItem("v2", <<"w", "2">>, "N/A"),
            VMItem(NoId, <<"d">>, "gold")}

RawStatuses == {"", "Running"}

DrvDates(t) == {NA} \cup {d \in Dates : t - STALE_HOURS - TickHours <= d /\ d <= t - STALE_HOURS}
DrvSnaps(t) == {Snapshot(d, FALSE, st) : d \in DrvDates(t), st \in RawStatuses}

\* GET /api/v1/vmware/vm?name=...: transport error, HTTP error, or a list
VmSearchResponses ==
    {[kind |-> k, items |-> <<>>] : k \in {"exc", "non200"}}
    \cup {[kind |-> "ok", items |-> c] : c \in SeqUpTo(VMItems, MaxCands)}

\* GET /api/v1/vmware/vm/<id>/snapshot
SnapResponses(t) ==
    {[kind |-> k, snaps |-> <<>>] : k \in {"exc", "non200"}}
    \cup {[kind |-> "ok", snaps |-> c] : c \in SeqUpTo(DrvSnaps(t), MaxSnaps)}

\* POST /api/v1/vmware/vm/<id>/snapshot
\* the response texts: empty, "is Running", "In Progress", "err"
TrigBodies ==
    {<<>>,
     <<"i", "s", " ", "R", "u", "n", "n", "i", "n", "g">>,
     <<"I", "n", " ", "P", "r", "o", "g", "r", "e", "s", "s">>,
     <<"e", "r", "r">>}
TrigResponses ==
    {[kind |-> "exc", code |-> 0, body |-> <<>>]}
    \cup {[kind |-> "http", code |-> c, body |-> b] : c \in {200, 201, 202, 204, 409, 500}, b \in TrigBodies}

\* "running" in body.lower()
BodyHasRunning(b) == IsSubstr(<<"r", "u", "n", "n", "i", "n", "g">>, Lower(b))
\* "in progress" in body.lower()
BodyHasInProgress(b) ==
    IsSubstr(<<"i", "n", " ", "p", "r", "o", "g", "r", "e", "s", "s">>, Lower(b))

(***************************************************************************)
(* combined_backup_report.py                                               *)
(***************************************************************************)
CB_row_defaults(server) ==
    [server |-> server, in_rubrik |-> "NO", status |-> "NO", last_backup |-> NA,
     sla_domain |-> "N/A", backup_running |-> FALSE, backup_triggered |-> FALSE,
     backup_trigger_error |-> "None"]

RECURSIVE FirstNamed(_, _, _)
\* lines 166-170: the first candidate whose lowercase name equals name_l
FirstNamed(items, i, name_l) ==
    IF i > Len(items) THEN 0
    ELSE IF Lower(items[i].name) = name_l THEN i
    ELSE FirstNamed(items, i + 1, name_l)

\* RubrikClient.get_vm_by_name: the VM chosen, or <<>> for None
CB_get_vm_by_name(name, resp) ==
    IF resp.kind # "ok" \/ resp.items = <<>> THEN <<>>
    ELSE LET k == FirstNamed(resp.items, 1, Lower(name))
             chosen == IF k = 0 THEN resp.items[1] ELSE resp.items[k]
         IN IF chosen.id = NoId THEN <<>> ELSE <<chosen>>

CB_RunningStates == {"RUNNING", "IN_PROGRESS", "QUEUED"}

CB_trigger_running_too(resp) ==
    IF resp.kind = "exc" THEN <<FALSE, FALSE, "exception">>
    ELSE IF resp.code \in {200, 201, 202, 204}
         THEN <<TRUE, BodyHasRunning(resp.body), "None">>
    ELSE IF resp.code = 409 \/ BodyHasRunning(resp.body) \/ BodyHasInProgress(resp.body)
         THEN <<FALSE, TRUE, "None">>
    ELSE <<FALSE, FALSE, "HTTP error">>

\* RubrikClient.trigger_on_demand_backup: <<triggered, already_running, err>>
CB_trigger_no_conflict(resp) ==
    IF resp.kind = "exc" THEN <<FALSE, FALSE, "exception">>
    ELSE IF resp.code \in {200, 201, 202, 204} THEN <<TRUE, FALSE, "None">>
    ELSE IF BodyHasRunning(resp.body) \/ BodyHasInProgress(resp.body)
         THEN <<FALSE, TRUE, "None">>
    ELSE <<FALSE, FALSE, "HTTP error">>

\* returns <<triggered, already_running, error_message>>
CB_trigger_on_demand_backup(resp) ==
    IF resp.kind = "exc" THEN <<FALSE, FALSE, "exception">>
    ELSE IF resp.code \in {200, 201, 202, 204} THEN <<TRUE, FALSE, "None">>
    ELSE IF resp.code = 409 \/ BodyHasRunning(resp.body) \/ BodyHasInProgress(resp.body)
         THEN <<FALSE, TRUE, "None">>
    ELSE <<FALSE, FALSE, "HTTP error">>

CB_next_step_nocontinue(fresh, running) == IF running THEN "loop" ELSE "stale"

CB_next_step_norunning(fresh, running) == IF fresh THEN "loop" ELSE "stale"

\* lines 376-386: a fresh or an already running backup ends the iteration
CB_next_step(fresh, running) ==
    IF fresh THEN "loop" ELSE IF running THEN "loop" ELSE "stale"

(***************************************************************************)
(* What the platform told the driver about one object, recorded next to    *)
(* the row so that the rows can be judged against it.                      *)
(***************************************************************************)
Obs(server, id) ==
    [server |-> server, vm_id |-> id, queried |-> FALSE, qfailed |-> FALSE,
     usable |-> FALSE, running |-> FALSE, triggered |-> FALSE]

\* the answer carries at least one snapshot with a readable timestamp
HasUsableSnapshot(snaps) == \E i \in 1..Len(snaps) : snaps[i].date # NA

\* the newest dated snapshot of the answer is in a running state
ReportsRunning(snaps) ==
    \E i \in 1..Len(snaps) :
        /\ snaps[i].date # NA
        /\ \A j \in 1..Len(snaps) : snaps[j].date # NA => snaps[j].date <= snaps[i].date
        /\ \A j \in 1..(i - 1) : snaps[j].date # snaps[i].date
        /\ UpperStatus(snaps[i].status) \in {"RUNNING", "IN_PROGRESS", "QUEUED"}

\* rows.append(row); continue
FinishRow(row, ob) ==
    /\ rows' = Append(rows, row)
    /\ trace' = Append(trace, ob)
    /\ servers' = Tail(servers)
    /\ pc' = "loop"
    /\ loc' = <<>>

\* the row of a trigger attempt is appended; the answer to the attempt is
\* kept until the next iteration starts
FinishAttempt(row, ob, resp) ==
    /\ rows' = Append(rows, row)
    /\ trace' = Append(trace, ob)
    /\ servers' = Tail(servers)
    /\ pc' = "loop"
    /\ loc' = [resp |-> resp]

\* an exception nobody catches ends the process
Crash(ob) ==
    /\ pc' = "crashed"
    /\ loc' = [loc EXCEPT !.ob = ob]
    /\ UNCHANGED <<rows, trace, servers>>

\* lines 355-365: row defaults and the VM lookup
CB_Lookup ==
    /\ prog = "combined" /\ pc = "loop" /\ servers # <<>>
    /\ \E resp \in VmSearchResponses :
         LET srv == Head(servers)
             row == CB_row_defaults(srv)
             vm == CB_get_vm_by_name(srv, resp)
         IN IF vm = <<>>
            THEN FinishRow(row, Obs(srv, NoId))
            ELSE /\ loc' = [row |-> [row EXCEPT !.in_rubrik = "YES",
                                                !.sla_domain = vm[1].sla],
                            vm_id |-> vm[1].id,
                            ob |-> Obs(srv, vm[1].id)]
                 /\ pc' = "matched"
                 /\ UNCHANGED <<rows, trace, servers>>
    /\ UNCHANGED <<prog, tickets, calls, report, now>>
    /\ UNCHANGED evalVars
    /\ UNCHANGED syncVars
    /\ UNCHANGED matchVars

\* lines 367-386: the snapshot query and the freshness decision
CB_Evaluate ==
    /\ prog = "combined" /\ pc = "matched"
    /\ \E resp \in SnapResponses(now) :
         LET ob == [loc.ob EXCEPT !.queried = TRUE,
                                  !.qfailed = resp.kind # "ok",
                                  !.usable = HasUsableSnapshot(resp.snaps),
                                  !.running = ReportsRunning(resp.snaps)]
         IN IF resp.kind = "exc"
            THEN Crash(ob)
            ELSE LET ls == CB_get_latest_snapshot(resp.kind, resp.snaps)
                     last_dt == ls[1]
                     snap_status == ls[2]
                     running == snap_status \in CB_RunningStates
                     fresh == CB_fresh(last_dt, now)
                     row == [loc.row EXCEPT !.last_backup = last_dt,
                                            !.backup_running = running,
                                            !.status = IF fresh THEN "YES" ELSE @]
                 IN IF CB_next_step(fresh, running) = "loop"
                    THEN FinishRow(row, ob)
                    ELSE /\ loc' = [loc EXCEPT !.row = row, !.ob = ob]
                         /\ pc' = "stale"
                         /\ UNCHANGED <<rows, trace, servers>>
    /\ UNCHANGED <<prog, tickets, calls, report, now>>
    /\ UNCHANGED evalVars
    /\ UNCHANGED syncVars
    /\ UNCHANGED matchVars

\* lines 388-394: the on-demand backup trigger
CB_Trigger ==
    /\ prog = "combined" /\ pc = "stale"
    /\ \E resp \in TrigResponses :
         LET out == CB_trigger_on_demand_backup(resp)
             row == [loc.row EXCEPT !.backup_triggered = out[1],
                                    !.backup_running = @ \/ out[2],
                                    !.backup_trigger_error = out[3]]
         IN FinishAttempt(row, [loc.ob EXCEPT !.triggered = TRUE], resp)
    /\ calls' = Append(calls, [server |-> loc.ob.server, id |-> loc.vm_id])
    /\ UNCHANGED <<prog, tickets, report, now>>
    /\ UNCHANGED evalVars
    /\ UNCHANGED syncVars
    /\ UNCHANGED matchVars

\* lines 396-401 (and 315-326 for an empty server list)
CB_WriteReport ==
    /\ prog = "combined" /\ pc = "loop" /\ servers = <<>>
    /\ report' = rows
    /\ pc' = "done"
    /\ UNCHANGED <<prog, tickets, servers, loc, rows, trace, calls, now>>
    /\ UNCHANGED evalVars
    /\ UNCHANGED syncVars
    /\ UNCHANGED matchVars

(***************************************************************************)
(* check_and_trigger_backup.py                                             *)
(***************************************************************************)
\* run_query: None on any transport or HTTP error, else the JSON body, which
\* may lack "data" or carry "data": null
GqlFailKinds == {"none", "nodata", "nulldata"}

CT_SearchResponses ==
    {[kind |-> k, edges |-> <<>>] : k \in GqlFailKinds}
    \cup {[kind |-> "ok", edges |-> c] : c \in SeqUpTo(VMItems, MaxCands)}

CT_SnapResponses(t) ==
    {[kind |-> k, edges |-> <<>>] : k \in GqlFailKinds}
    \cup {[kind |-> "ok", edges |-> c] : c \in SeqUpTo(DrvSnaps(t), MaxSnaps)}

CT_TrigResponses ==
    {[kind |-> k, msg |-> ""] : k \in {"none", "created", "nulldata", "empty"}}
    \cup {[kind |-> "errors", msg |-> m] : m \in {"Snapshot already queued", "job in Progress", "denied"}}

CT_row(server, status, last_backup, sla, note) ==
    [server |-> server, status |-> status, last_backup |-> last_backup,
     sla_domain |-> sla, note |-> note]

\* lines 164-192: needs_backup, from the answer to the snapshot query
CT_needs_backup(resp, t) ==
    IF resp.kind # "ok" THEN FALSE
    ELSE IF resp.edges = <<>> THEN TRUE
    ELSE LET last_dt == resp.edges[1].date IN
         IF last_dt = NA THEN TRUE
         ELSE t - last_dt > CT_MAX_AGE_HOURS

CT_last_backup_str(resp) ==
    IF resp.kind = "ok" /\ resp.edges # <<>> THEN resp.edges[1].date ELSE NA

CT_trigger_status_handled(resp) ==
    IF resp.kind = "created" THEN "YES"
    ELSE IF resp.kind = "errors"
         THEN IF resp.msg \in {"Snapshot already queued", "job in Progress"}
              THEN "IN_PROGRESS" ELSE "FAILED"
    ELSE "FAILED"

\* lines 200-223: the status after the trigger mutation
CT_trigger_status(resp) ==
    IF resp.kind = "created" THEN "TRIGGERED"
    ELSE IF resp.kind = "errors"
         THEN IF resp.msg \in {"Snapshot already queued", "job in Progress"}
              THEN "IN_PROGRESS" ELSE "FAILED"
    ELSE "FAILED"

\* lines 144-160: the VM search
CT_Search ==
    /\ prog = "trigger" /\ pc = "loop" /\ servers # <<>>
    /\ \E resp \in CT_SearchResponses :
         LET server == Head(servers) IN
         IF resp.kind \in {"none", "nodata"}
         THEN FinishRow(CT_row(server, "FAILED", NA, "", "API Error"), Obs(server, NoId))
         ELSE IF resp.kind = "nulldata"
         THEN /\ pc' = "crashed"
              /\ loc' = [ob |-> Obs(server, NoId)]
              /\ UNCHANGED <<rows, trace, servers>>
         ELSE IF resp.edges = <<>>
         THEN FinishRow(CT_row(server, "FAILED", NA, "", "VM Not Found"), Obs(server, NoId))
         ELSE /\ loc' = [row |-> CT_row(server, "YES", NA, resp.edges[1].sla, ""),
                         vm_id |-> resp.edges[1].id,
                         ob |-> Obs(server, resp.edges[1].id)]
              /\ pc' = "matched"
              /\ UNCHANGED <<rows, trace, servers>>
    /\ UNCHANGED <<prog, tickets, calls, report, now>>
    /\ UNCHANGED evalVars
    /\ UNCHANGED syncVars
    /\ UNCHANGED matchVars

\* lines 162-196, and 229-234 when no backup is needed
CT_Snapshots ==
    /\ prog = "trigger" /\ pc = "matched"
    /\ \E resp \in CT_SnapResponses(now) :
         LET ob == [loc.ob EXCEPT !.queried = TRUE,
                                  !.qfailed = resp.kind # "ok",
                                  !.usable = HasUsableSnapshot(resp.edges)]
             row == [loc.row EXCEPT !.last_backup = CT_last_backup_str(resp)]
         IN IF resp.kind = "nulldata"
            THEN Crash(ob)
            ELSE IF CT_needs_backup(resp, now)
            THEN /\ loc' = [loc EXCEPT !.row = [row EXCEPT !.status = "NO"], !.ob = ob]
                 /\ pc' = "stale"
                 /\ UNCHANGED <<rows, trace, servers>>
            ELSE FinishRow(row, ob)
    /\ UNCHANGED <<prog, tickets, calls, report, now>>
    /\ UNCHANGED evalVars
    /\ UNCHANGED syncVars
    /\ UNCHANGED matchVars

\* lines 196-234: the createOnDemandSnapshot mutation and the row
CT_Trigger ==
    /\ prog = "trigger" /\ pc = "stale"
    /\ \E resp \in CT_TrigResponses :
         LET ob == [loc.ob EXCEPT !.triggered = TRUE] IN
         IF resp.kind = "nulldata"
         THEN Crash(ob)
         ELSE FinishAttempt([loc.row EXCEPT !.status = CT_trigger_status(resp)], ob, resp)
    /\ calls' = Append(calls, [server |-> loc.ob.server, id |-> loc.vm_id])
    /\ UNCHANGED <<prog, tickets, report, now>>
    /\ UNCHANGED evalVars
    /\ UNCHANGED syncVars
    /\ UNCHANGED matchVars

\* lines 236-241
CT_Save ==
    /\ prog = "trigger" /\ pc = "loop" /\ servers = <<>>
    /\ report' = rows
    /\ pc' = "done"
    /\ UNCHANGED <<prog, tickets, servers, loc, rows, trace, calls, now>>
    /\ UNCHANGED evalVars
    /\ UNCHANGED syncVars
    /\ UNCHANGED matchVars

(***************************************************************************)
(* The reconcile specification: one run of one of the two drivers.         *)
(***************************************************************************)
Init ==
    /\ EvalIdle
    /\ SyncIdle
    /\ MatchIdle
    /\ now = 2 * HoursPerDay
    /\ prog \in {"combined", "trigger"}
    /\ tickets = <<>>
    /\ \E ts \in TicketLists :
         servers \in (IF prog = "combined" THEN {CB_servers(ts)}
                      ELSE Orderings(CT_servers(ts)))
    /\ pc = "loop"
    /\ loc = <<>>
    /\ rows = <<>>
    /\ trace = <<>>
    /\ calls = <<>>
    /\ report = <<>>

Next ==
    \/ CB_Lookup
    \/ CB_Evaluate
    \/ CB_Trigger
    \/ CB_WriteReport
    \/ CT_Search
    \/ CT_Snapshots
    \/ CT_Trigger
    \/ CT_Save

Spec == Init /\ [][Next]_vars

\* the driver is one sequential process that is never suspended for ever: a
\* step that can be taken is taken
SpecLive == Spec /\ WF_vars(Next)

(***************************************************************************)
(* update_servicenow.py: the ticket synchronizer                           *)
(***************************************************************************)
MaxResults == 2

\* the status of a record as the reports write it; line 117 only compares it
\* with "YES", and the values written after a trigger attempt are handled
\* like "TRIGGERED"
ReportStatuses == {"YES", "NO", "TRIGGERED"}
ReportServers == {<<"w">>, <<"W">>, <<"d">>}

\* a record of the report; a record may lack its server
ReportRecord(server, status) == [server |-> server, status |-> status]
ReportRecords ==
    {ReportRecord(srv, st) : srv \in ReportServers, st \in ReportStatuses}
    \cup {ReportRecord(<<>>, "NO")}

NoTicket == 0

RECURSIVE US_lookup(_, _, _)
\* lines 77-87: the index is filled ticket by ticket, a later ticket
\* overwriting an earlier one; the entry of server after the first i tickets
US_lookup(ts, i, server) ==
    IF i = 0 THEN NoTicket
    ELSE IF \E k \in 1..Len(ts[i].nodes) :
              ts[i].nodes[k] # <<>> /\ Lower(ts[i].nodes[k]) = server
         THEN ts[i].sys_id
         ELSE US_lookup(ts, i - 1, server)

US_server_to_ticket_earliest(ts, server) ==
    LET naming == {i \in 1..Len(ts) : US_lookup(ts, i, Lower(server)) # NoTicket}
    IN IF naming = {} THEN NoTicket
       ELSE ts[CHOOSE i \in naming : \A j \in naming : i <= j].sys_id

US_server_to_ticket_first(ts, server) ==
    IF US_lookup(ts, Len(ts), Lower(server)) = NoTicket /\ ts # <<>>
    THEN ts[1].sys_id
    ELSE US_lookup(ts, Len(ts), Lower(server))

\* server_to_ticket.get(server.lower())
US_server_to_ticket(ts, server) == US_lookup(ts, Len(ts), Lower(server))

US_status_lenient(status_raw) ==
    IF status_raw \in {"YES", "TRIGGERED"} THEN "OK" ELSE "FAILED"

\* line 117
US_status(status_raw) == IF status_raw = "YES" THEN "OK" ELSE "FAILED"

\* line 132
US_incident_state(status) == IF status = "OK" THEN "Resolved" ELSE "Active"

\* requests.patch: an HTTP status code, or 0 for an exception
PatchResponses == {0, 200, 201, 204, 500}

\* what happened to one record of the report: the record, and whether a
\* PATCH was sent for it
SyncObs(rec, sent) == [rec |-> rec, sent |-> sent]

\* the answer to the last PATCH, and the two counters before it
PatchObs(response, u, f) == [response |-> response, updated0 |-> u, failed0 |-> f]

SyncInit ==
    /\ EvalIdle
    /\ MatchIdle
    /\ now = 2 * HoursPerDay
    /\ prog = "update_servicenow"
    /\ tickets \in TicketLists
    /\ results \in SeqUpTo(ReportRecords, MaxResults)
    /\ pc = IF results = <<>> THEN "done" ELSE "sync"
    /\ servers = <<>>
    /\ loc = <<>>
    /\ rows = <<>>
    /\ trace = <<>>
    /\ calls = <<>>
    /\ report = <<>>
    /\ patches = <<>>
    /\ updated = 0
    /\ failed = 0

\* lines 95-107: a record without server or without ticket is passed over
SyncSkip ==
    /\ prog = "update_servicenow" /\ pc = "sync" /\ results # <<>>
    /\ LET rec == Head(results) IN
         \/ rec.server = <<>>
         \/ US_server_to_ticket(tickets, rec.server) = NoTicket
    /\ results' = Tail(results)
    /\ trace' = Append(trace, SyncObs(Head(results), FALSE))
    /\ loc' = <<>>
    /\ UNCHANGED <<patches, updated, failed>>
    /\ UNCHANGED <<prog, tickets, servers, pc, rows, calls, report>>
    /\ UNCHANGED <<now, ev, qres, edges, seen, seenw>>
    /\ UNCHANGED matchVars

\* lines 109-159: the PATCH of the ticket of the record
SyncPatch ==
    /\ prog = "update_servicenow" /\ pc = "sync" /\ results # <<>>
    /\ LET rec == Head(results)
           sys_id == US_server_to_ticket(tickets, rec.server)
           status == US_status(rec.status)
       IN /\ rec.server # <<>>
          /\ sys_id # NoTicket
          /\ patches' = Append(patches, [sys_id |-> sys_id,
                                         incident_state |-> US_incident_state(status),
                                         rec |-> rec])
          /\ \E response \in PatchResponses :
               /\ IF response \in {200, 204}
                  THEN updated' = updated + 1 /\ failed' = failed
                  ELSE failed' = failed + 1 /\ updated' = updated
               /\ trace' = Append(trace, SyncObs(rec, TRUE))
               /\ loc' = PatchObs(response, updated, failed)
    /\ results' = Tail(results)
    /\ UNCHANGED <<prog, tickets, servers, pc, rows, calls, report>>
    /\ UNCHANGED <<now, ev, qres, edges, seen, seenw>>
    /\ UNCHANGED matchVars

\* lines 161-165
SyncSummary ==
    /\ prog = "update_servicenow" /\ pc = "sync" /\ results = <<>>
    /\ pc' = "done"
    /\ UNCHANGED <<prog, tickets, servers, loc, rows, trace, calls, report>>
    /\ UNCHANGED syncVars
    /\ UNCHANGED <<now, ev, qres, edges, seen, seenw>>
    /\ UNCHANGED matchVars

SyncNext == SyncSkip \/ SyncPatch \/ SyncSummary

SpecSync == SyncInit /\ [][SyncNext]_vars

(***************************************************************************)
(* The catalog of the backup platform, as the matchers ingest it           *)
(***************************************************************************)
MaxCat == 3
MaxServers == 2

\* "n/a", the name and path the ingestion substitutes for a missing one
NAStr == <<"n", "/", "a">>

\* s.split(".")[0]
RECURSIVE SplitDot0(_)
SplitDot0(s) ==
    IF s = <<>> \/ Head(s) = "." THEN <<>> ELSE <<Head(s)>> \o SplitDot0(Tail(s))

\* a node of the platform: id, name, the query that lists it, physicalPath
\* names joined, and the snapshots the platform holds for it
PNode(i, n, k, p, sn) == [id |-> i, name |-> n, kind |-> k, path |-> p, snaps |-> sn]

FreshSnap(t) == Snapshot(t - TickHours, FALSE, "")
OldSnap(t) == Snapshot(t - 2 * HoursPerDay, FALSE, "")

PNodes(t) ==
    {PNode("f1", <<"w">>, "WINDOWS", <<"/", "b">>, <<FreshSnap(t)>>),
     PNode("f2", <<"w", "2">>, "WINDOWS", <<"/", "b">>, <<OldSnap(t)>>),
     PNode("v1", <<"W", ".", "c">>, "VM", <<>>, <<FreshSnap(t), OldSnap(t)>>),
     PNode(NoId, <<"w">>, "LINUX", <<"/", "b">>, <<>>),
     PNode("f3", <<"b">>, "WINDOWS", <<"/", "W">>, <<OldSnap(t)>>),
     PNode("v2", <<"w">>, "VM", <<>>, <<>>)}

\* the lists the platform may return: distinct nodes in any order
Catalogs(t) ==
    {c \in SeqUpTo(PNodes(t), MaxCat) : \A i, j \in 1..Len(c) : i # j => c[i] # c[j]}

OfKind(cat, k) == SelectSeq(cat, LAMBDA n : n.kind = k)

ReqNames == {<<"w">>, <<"W">>, <<"g">>, <<"b">>, <<>>}

\* _safe_path_string
SafePathString(p) == IF p = <<>> THEN NAStr ELSE Lower(p)

(***************************************************************************)
(* check_backup.py                                                         *)
(***************************************************************************)
\* _normalize_hostname
CK_normalize_hostname(name) ==
    IF name = <<>> THEN <<>> ELSE SplitDot0(Lower(Strip(name)))

CK_type_collapsed(kind) == "FILESYSTEM"

\* the "type" the ingestion writes: lines 170, 195 and 219
CK_type(kind) == IF kind = "VM" THEN "VM" ELSE "FILESYSTEM"

\* one entry of fetch_all_filesets / fetch_all_vms
CK_entry(n) ==
    LET obj_name == Strip(IF n.name = <<>> THEN NAStr ELSE n.name) IN
    [snappable_id |-> n.id,
     object_name |-> IF obj_name = <<>> THEN NAStr ELSE obj_name,
     server_lower |-> Lower(obj_name),
     server_norm |-> CK_normalize_hostname(obj_name),
     path |-> IF n.kind = "VM" THEN <<>> ELSE SafePathString(n.path),
     type |-> CK_type(n.kind),
     kind |-> n.kind,
     snaps |-> n.snaps]

\* lines 230-232: filesets (Windows, then Linux), then VMs
CK_all_objects(cat) ==
    LET ordered == OfKind(cat, "WINDOWS") \o OfKind(cat, "LINUX") \o OfKind(cat, "VM")
    IN [i \in 1..Len(ordered) |-> CK_entry(ordered[i])]

CK_match_weight_no_path(server, entry) ==
    LET target == CK_normalize_hostname(server) IN
    IF target = <<>> THEN 0
    ELSE IF target = entry.server_norm \/ target = entry.server_lower THEN 3
    ELSE IF IsSubstr(target, entry.server_lower) THEN 2
    ELSE 0

\* match_weight
CK_match_weight(server, entry) ==
    LET target == CK_normalize_hostname(server) IN
    IF target = <<>> THEN 0
    ELSE IF target = entry.server_norm \/ target = entry.server_lower THEN 3
    ELSE IF IsSubstr(target, entry.server_lower) THEN 2
    ELSE IF IsSubstr(target, entry.path) THEN 1
    ELSE 0

\* lines 238-242: the indices of the entries with a positive weight
CK_matches(srv, objs) ==
    SelectSeq([i \in 1..Len(objs) |-> i], LAMBDA i : CK_match_weight(srv, objs[i]) > 0)

RECURSIVE CK_group_types(_, _, _)
\* lines 267-270: the types of the matches, in order of first appearance
CK_group_types(ms, objs, acc) ==
    IF ms = <<>> THEN acc
    ELSE LET t == objs[Head(ms)].type IN
         CK_group_types(Tail(ms), objs,
                        IF \E k \in 1..Len(acc) : acc[k] = t THEN acc ELSE Append(acc, t))

\* lines 282: the snapshot verdict of one candidate; q is the query outcome
CK_candidate_eval(entry, q, t) ==
    IF entry.snappable_id # NoId
    THEN CK_latest_snapshot_after_cutoff(q, entry.snaps, t)
    ELSE Result("NO", NA, NA)

RECURSIVE CK_pick(_, _, _, _, _, _)
\* lines 280-313: best is <<index, weight, dt, status>> or <<>>; qs holds the
\* outcome of the snapshot query of every candidate that has one
CK_pick(srv, es, objs, qs, t, best) ==
    IF es = <<>> THEN best
    ELSE LET i == Head(es)
             weight == CK_match_weight(srv, objs[i])
             r == CK_candidate_eval(objs[i], IF i \in DOMAIN qs THEN qs[i] ELSE "ok", t)
             cand == <<i, weight, r.last, r.status>>
             replace == \/ best = <<>>
                        \/ weight > best[2]
                        \/ /\ weight = best[2]
                           /\ r.last # NA
                           /\ (best[3] = NA \/ r.last > best[3])
         IN CK_pick(srv, Tail(es), objs, qs, t, IF replace THEN cand ELSE best)

CK_not_found(srv) ==
    [server |-> srv, type |-> "N/A", in_rubrik |-> "NO", fileset_or_vm |-> <<>>,
     last_backup |-> NA, status |-> "NO"]

CK_group_row_first(srv, obj_type, ms, objs, qs, t) ==
    LET entries == SelectSeq(ms, LAMBDA i : objs[i].type = obj_type)
        best == CK_pick(srv, <<Head(entries)>>, objs, qs, t, <<>>)
    IN [server |-> srv, type |-> obj_type, in_rubrik |-> "YES",
        fileset_or_vm |-> objs[best[1]].object_name,
        last_backup |-> best[3], status |-> best[4]]

\* lines 272-328: the row of one type group
CK_group_row(srv, obj_type, ms, objs, qs, t) ==
    LET entries == SelectSeq(ms, LAMBDA i : objs[i].type = obj_type)
        best == CK_pick(srv, entries, objs, qs, t, <<>>)
    IN [server |-> srv, type |-> obj_type, in_rubrik |-> "YES",
        fileset_or_vm |-> objs[best[1]].object_name,
        last_backup |-> best[3], status |-> best[4]]

\* lines 253-328: the rows of one server
CK_server_rows(srv, objs, qs, t) ==
    LET ms == CK_matches(srv, objs) IN
    IF ms = <<>> THEN <<CK_not_found(srv)>>
    ELSE LET types == CK_group_types(ms, objs, <<>>) IN
         [k \in 1..Len(types) |-> CK_group_row(srv, types[k], ms, objs, qs, t)]

\* Rubrik.q of check_backup.py: the JSON, None for a non-200 answer, or the
\* exception of requests.post, which nothing catches
CK_QueryKinds == {"ok", "none", "exc"}

\* lines 236-328: one iteration of the loop over server_list
CK_CheckServer ==
    /\ prog = "check_backup" /\ pc = "loop" /\ servers # <<>>
    /\ LET srv == Head(servers)
           ms == CK_matches(srv, all_objects)
           queried == {i \in Range(ms) : all_objects[i].snappable_id # NoId}
       IN \E qs \in [queried -> CK_QueryKinds] :
            /\ IF \E i \in queried : qs[i] = "exc"
               THEN /\ pc' = "crashed"
                    /\ UNCHANGED <<rows, servers>>
               ELSE /\ rows' = rows \o CK_server_rows(srv, all_objects, qs, now)
                    /\ servers' = Tail(servers)
                    /\ pc' = "loop"
    /\ UNCHANGED <<prog, tickets, loc, trace, calls, report, now>>
    /\ UNCHANGED <<all_objects, server_list, matches>>
    /\ UNCHANGED evalVars
    /\ UNCHANGED syncVars

\* line 330
CK_Return ==
    /\ prog = "check_backup" /\ pc = "loop" /\ servers = <<>>
    /\ report' = rows
    /\ pc' = "done"
    /\ UNCHANGED <<prog, tickets, servers, loc, rows, trace, calls, now>>
    /\ UNCHANGED <<all_objects, server_list, matches>>
    /\ UNCHANGED evalVars
    /\ UNCHANGED syncVars

(***************************************************************************)
(* check_filesets.py                                                       *)
(***************************************************************************)
NoReq == <<"-">>

\* one entry of fetch_all_filesets
CF_entry(n) ==
    [snappable_id |-> n.id,
     server |-> Lower(IF n.name = <<>> THEN NAStr ELSE n.name),
     path |-> SafePathString(n.path),
     type |-> IF n.kind = "WINDOWS" THEN "WINDOWS_FILESET" ELSE "LINUX_FILESET",
     snaps |-> n.snaps,
     requested_server |-> NoReq]

\* lines 162-221: Windows filesets, then Linux filesets
CF_all_filesets(cat) ==
    LET ordered == OfKind(cat, "WINDOWS") \o OfKind(cat, "LINUX")
    IN [i \in 1..Len(ordered) |-> CF_entry(ordered[i])]

\* line 244: the server list run() works on
CF_servers(input) ==
    LET kept == SelectSeq(input, LAMBDA srv : srv # <<>> /\ Strip(srv) # <<>>)
    IN [i \in 1..Len(kept) |-> Lower(Strip(kept[i]))]

\* fuzzy_match
CF_fuzzy_match(server, fs) ==
    LET s == Lower(server) IN IsSubstr(s, fs.server) \/ IsSubstr(s, fs.path)

\* Rubrik.q of check_filesets.py catches every exception
CF_QueryKinds == {"ok", "none"}

\* lines 265-271: the matches of one server; the matched entries are marked
CF_Match ==
    /\ prog = "check_filesets" /\ pc = "loop" /\ servers # <<>>
    /\ LET srv == Head(servers)
           srv_matches == SelectSeq([i \in 1..Len(all_objects) |-> i],
                                    LAMBDA i : CF_fuzzy_match(srv, all_objects[i]))
       IN /\ all_objects' = [i \in 1..Len(all_objects) |->
                               IF i \in Range(srv_matches)
                               THEN [all_objects[i] EXCEPT !.requested_server = srv]
                               ELSE all_objects[i]]
          /\ matches' = matches \o srv_matches
    /\ servers' = Tail(servers)
    /\ UNCHANGED <<prog, tickets, pc, loc, rows, trace, calls, report, now, server_list>>
    /\ UNCHANGED evalVars
    /\ UNCHANGED syncVars

\* lines 277-305: the row of one matched fileset
CF_Check ==
    /\ prog = "check_filesets" /\ pc = "loop" /\ servers = <<>> /\ matches # <<>>
    /\ LET fs == all_objects[Head(matches)]
           requested_server == IF fs.requested_server = NoReq THEN fs.server
                               ELSE fs.requested_server
       IN IF fs.snappable_id = NoId
          THEN rows' = Append(rows, [server |-> requested_server, type |-> fs.type,
                                     in_rubrik |-> "NO", last_backup |-> NA,
                                     status |-> "NO", successful_backup_count |-> 0])
          ELSE \E q \in CF_QueryKinds :
                 LET r == CF_latest_snapshot_after_cutoff(q, fs.snaps, now) IN
                 rows' = Append(rows, [server |-> requested_server, type |-> fs.type,
                                       in_rubrik |-> "YES", last_backup |-> r.last,
                                       status |-> r.status,
                                       successful_backup_count |-> r.count])
    /\ matches' = Tail(matches)
    /\ UNCHANGED <<prog, tickets, servers, pc, loc, trace, calls, report, now>>
    /\ UNCHANGED <<all_objects, server_list>>
    /\ UNCHANGED evalVars
    /\ UNCHANGED syncVars

\* lines 319-329
CF_Return ==
    /\ prog = "check_filesets" /\ pc = "loop" /\ servers = <<>> /\ matches = <<>>
    /\ report' = rows
    /\ pc' = "done"
    /\ UNCHANGED <<prog, tickets, servers, loc, rows, trace, calls, now>>
    /\ UNCHANGED <<all_objects, server_list, matches>>
    /\ UNCHANGED evalVars
    /\ UNCHANGED syncVars

(***************************************************************************)
(* The matcher specification: one run of check_backups or of               *)
(* check_filesets.run over a catalog and a list of requested names.        *)
(***************************************************************************)
MatchInit ==
    /\ EvalIdle
    /\ SyncIdle
    /\ now = 2 * HoursPerDay
    /\ prog \in {"check_backup", "check_filesets"}
    /\ tickets = <<>>
    /\ \E cat \in Catalogs(now), input \in SeqUpTo(ReqNames, MaxServers) :
         /\ all_objects = (IF prog = "check_backup" THEN CK_all_objects(cat)
                           ELSE CF_all_filesets(cat))
         /\ server_list = (IF prog = "check_backup" THEN input ELSE CF_servers(input))
    /\ servers = server_list
    /\ matches = <<>>
    /\ pc = "loop"
    /\ loc = <<>>
    /\ rows = <<>>
    /\ trace = <<>>
    /\ calls = <<>>
    /\ report = <<>>

MatchNext ==
    \/ CK_CheckServer
    \/ CK_Return
    \/ CF_Match
    \/ CF_Check
    \/ CF_Return

SpecMatch == MatchInit /\ [][MatchNext]_vars

(***************************************************************************)
(* Two runs in succession of combined_backup_report.main or of             *)
(* check_backup.check_backups against one platform: the catalog, the       *)
(* snapshots and the answer to every request are those of the first run,   *)
(* the clock may have advanced.  rows holds the records of the first run,  *)
(* report those of the second, trace the clock reading of each run.        *)
(***************************************************************************)
MaxNames == 1

\* the answers of the platform to the VM search of one name (a transport
\* error is handled like an HTTP error, lines 136-146)
TW_VmAnswers == {r \in VmSearchResponses : r.kind # "exc" /\ Len(r.items) <= 1}

\* the dates around the freshness cutoff of a run at t
TW_Dates(t) == {NA, t - STALE_HOURS - TickHours, t - STALE_HOURS, t - TickHours}

\* the answers to the snapshot list of one VM
TW_SnapAnswers(t) ==
    {[kind |-> "non200", snaps |-> <<>>], [kind |-> "ok", snaps |-> <<>>]}
    \cup {[kind |-> "ok", snaps |-> <<Snapshot(d, FALSE, "")>>] : d \in TW_Dates(t)}
    \cup {[kind |-> "ok", snaps |-> <<Snapshot(t - STALE_HOURS - TickHours, FALSE, "Running")>>]}

\* the answers to the trigger request for one VM
TW_TrigAnswers ==
    {[kind |-> "http", code |-> c, body |-> <<>>] : c \in {202, 409, 500}}

TW_Ids == {it.id : it \in VMItems} \ {NoId}

\* the platform as the two runs of combined_backup_report see it
TW_Platforms(names, t) ==
    [vm : [names -> TW_VmAnswers],
     snap : [TW_Ids -> TW_SnapAnswers(t)],
     trig : [TW_Ids -> TW_TrigAnswers]]

\* combined_backup_report.main, lines 355-394: the row of one server
CB_server_row(srv, pf, t) ==
    LET row == CB_row_defaults(srv)
        vm == CB_get_vm_by_name(srv, pf.vm[srv])
    IN IF vm = <<>> THEN row
       ELSE LET resp == pf.snap[vm[1].id]
                ls == CB_get_latest_snapshot(resp.kind, resp.snaps)
                running == ls[2] \in CB_RunningStates
                fresh == CB_fresh(ls[1], t)
                evaluated == [row EXCEPT !.in_rubrik = "YES",
                                         !.sla_domain = vm[1].sla,
                                         !.last_backup = ls[1],
                                         !.backup_running = running,
                                         !.status = IF fresh THEN "YES" ELSE @]
            IN IF CB_next_step(fresh, running) = "loop" THEN evaluated
               ELSE LET out == CB_trigger_on_demand_backup(pf.trig[vm[1].id])
                    IN [evaluated EXCEPT !.backup_triggered = out[1],
                                         !.backup_running = @ \/ out[2],
                                         !.backup_trigger_error = out[3]]

\* lines 355-394: the rows of a run
CB_main_rows(srvs, pf, t) == [i \in 1..Len(srvs) |-> CB_server_row(srvs[i], pf, t)]

RECURSIVE CK_check_backups(_, _, _, _)
\* check_backups, lines 236-330: the results of a run
CK_check_backups(srvs, objs, qs, t) ==
    IF srvs = <<>> THEN <<>>
    ELSE CK_server_rows(Head(srvs), objs, qs, t)
             \o CK_check_backups(Tail(srvs), objs, qs, t)

TwiceInit ==
    /\ EvalIdle
    /\ SyncIdle
    /\ now \in NowSet
    /\ prog \in {"combined", "check_backup"}
    /\ tickets = <<>>
    /\ matches = <<>>
    /\ IF prog = "combined"
       THEN /\ \E ts \in TicketLists : servers = CB_servers(ts)
            /\ loc \in TW_Platforms(Range(servers), now)
            /\ all_objects = <<>>
       ELSE /\ servers \in SeqUpTo(ReqNames, MaxNames)
            /\ \E cat \in Catalogs(now) : all_objects = CK_all_objects(cat)
            /\ loc \in [{i \in 1..Len(all_objects) : all_objects[i].snappable_id # NoId}
                          -> CF_QueryKinds]
    /\ server_list = servers
    /\ pc = "first"
    /\ rows = <<>>
    /\ trace = <<>>
    /\ calls = <<>>
    /\ report = <<>>

\* one run of combined_backup_report.main from the loop to the report
TW_CombinedRun ==
    /\ prog = "combined" /\ pc \in {"first", "second"}
    /\ LET res == CB_main_rows(servers, loc, now) IN
       IF pc = "first"
       THEN rows' = res /\ pc' = "second" /\ UNCHANGED report
       ELSE report' = res /\ pc' = "done" /\ UNCHANGED rows
    /\ trace' = Append(trace, now)
    /\ UNCHANGED <<prog, tickets, servers, loc, calls, now>>
    /\ UNCHANGED evalVars
    /\ UNCHANGED syncVars
    /\ UNCHANGED matchVars

\* one call of check_backup.check_backups
TW_CheckBackupsRun ==
    /\ prog = "check_backup" /\ pc \in {"first", "second"}
    /\ LET res == CK_check_backups(servers, all_objects, loc, now) IN
       IF pc = "first"
       THEN rows' = res /\ pc' = "second" /\ UNCHANGED report
       ELSE report' = res /\ pc' = "done" /\ UNCHANGED rows
    /\ trace' = Append(trace, now)
    /\ UNCHANGED <<prog, tickets, servers, loc, calls, now>>
    /\ UNCHANGED evalVars
    /\ UNCHANGED syncVars
    /\ UNCHANGED matchVars

\* datetime.now() of the second run is later than that of the first
TW_ClockAdvances ==
    /\ pc = "second" /\ now = trace[1]
    /\ now' = now + TickHours
    /\ UNCHANGED drvVars
    /\ UNCHANGED evalVars
    /\ UNCHANGED syncVars
    /\ UNCHANGED matchVars

TwiceNext ==
    \/ TW_CombinedRun
    \/ TW_CheckBackupsRun
    \/ TW_ClockAdvances

SpecTwice == TwiceInit /\ [][TwiceNext]_vars

(***************************************************************************)
(* check_backup._normalize_hostname and match_weight on requested names    *)
(* as they may be typed: letters of either case, blanks and dots.  loc     *)
(* holds the name, the catalog entry and what the functions returned.      *)
(***************************************************************************)
MaxNameLen == 3

NameChars == {"w", "W", " ", "."}
TypedNames == SeqUpTo(NameChars, MaxNameLen)

\* a domain suffix
DomainSuffix == <<".", "c">>

\* the spellings of a requested name that should weigh like the name itself
NM_Variants(name) == {Lower(name), name \o DomainSuffix}

NormInit ==
    /\ EvalIdle
    /\ SyncIdle
    /\ MatchIdle
    /\ now = 2 * HoursPerDay
    /\ prog = "normalize"
    /\ tickets = <<>>
    /\ servers = <<>>
    /\ pc = "start"
    /\ \E name \in TypedNames, n \in PNodes(now) :
         loc = [server |-> name, entry |-> CK_entry(n)]
    /\ rows = <<>>
    /\ trace = <<>>
    /\ calls = <<>>
    /\ report = <<>>

\* _normalize_hostname(server)
NM_Normalize ==
    /\ prog = "normalize" /\ pc = "start"
    /\ rows' = <<CK_normalize_hostname(loc.server)>>
    /\ pc' = "normalized"
    /\ UNCHANGED <<prog, tickets, servers, loc, trace, calls, report, now>>
    /\ UNCHANGED evalVars
    /\ UNCHANGED syncVars
    /\ UNCHANGED matchVars

\* _normalize_hostname applied to its own result
NM_NormalizeAgain ==
    /\ prog = "normalize" /\ pc = "normalized"
    /\ rows' = Append(rows, CK_normalize_hostname(rows[1]))
    /\ pc' = "renormalized"
    /\ UNCHANGED <<prog, tickets, servers, loc, trace, calls, report, now>>
    /\ UNCHANGED evalVars
    /\ UNCHANGED syncVars
    /\ UNCHANGED matchVars

\* match_weight(server, entry) for the name and for another spelling of it
NM_Weigh ==
    /\ prog = "normalize" /\ pc = "renormalized"
    /\ \E v \in NM_Variants(loc.server) :
         trace' = <<[server |-> loc.server,
                     weight |-> CK_match_weight(loc.server, loc.entry)],
                    [server |-> v, weight |-> CK_match_weight(v, loc.entry)]>>
    /\ pc' = "done"
    /\ UNCHANGED <<prog, tickets, servers, loc, rows, calls, report, now>>
    /\ UNCHANGED evalVars
    /\ UNCHANGED syncVars
    /\ UNCHANGED matchVars

NormNext ==
    \/ NM_Normalize
    \/ NM_NormalizeAgain
    \/ NM_Weigh

SpecNorm == NormInit /\ [][NormNext]_vars

(***************************************************************************)
(* Claims about the evaluators (checked under SpecEval).                   *)
(***************************************************************************)
CalendarEvaluators == {"check_backup", "check_filesets", "check"}
RollingEvaluators == {"check_last_backup", "combined"}

DayDelta(d) == DayOf(now) - DayOf(d)

\* C8: under the calendar-day policy the verdict is YES if and only if some
\* snapshot has UTC day-delta 0 or 1 (a day-delta of 2 is not compliant).
C8_CalendarDayIff ==
    ev \in CalendarEvaluators =>
        \A r \in seen :
            r.status = "YES" <=>
                \E i \in 1..Len(edges) :
                    edges[i].date # NA /\ DayDelta(edges[i].date) \in {0, 1}

\* C9: the evaluator's result (verdict, last backup, count) is the same for
\* every order in which the source returns the snapshot list.
C9_OrderIndependent == Cardinality(seen) <= 1

\* C10 as stated: under the rolling-window policy the verdict is YES if and
\* only if some snapshot has timestamp >= now - freshness_window.
C10_RollingIff ==
    ev \in RollingEvaluators =>
        \A r \in seen :
            r.status = "YES" <=>
                \E i \in 1..Len(edges) :
                    edges[i].date # NA /\ edges[i].date >= now - STATUS_WINDOW_HOURS

\* C10 amended: the verdict is YES if and only if some snapshot has
\* timestamp >= now - freshness_window (the cutoff itself included) and, in
\* check_last_backup.run, timestamp <= now; combined_backup_report compares
\* the maximum parsed timestamp with the cutoff and has no upper bound.
C10_RollingIffAmended ==
    \A r \in seen :
        /\ ev = "check_last_backup" =>
             (r.status = "YES" <=>
                \E i \in 1..Len(edges) :
                    /\ edges[i].date # NA
                    /\ edges[i].date >= now - STATUS_WINDOW_HOURS
                    /\ edges[i].date <= now)
        /\ ev = "combined" =>
             (r.status = "YES" <=>
                \E i \in 1..Len(edges) :
                    edges[i].date # NA /\ edges[i].date >= now - STALE_HOURS)

\* C10 witness: check_last_backup judged a list whose only snapshot inside
\* the window lies exactly on the cutoff, next to a snapshot later than now.
C10_Witness ==
    /\ ev = "check_last_backup"
    /\ \E r \in seen : r.status = "YES"
    /\ \E i \in 1..Len(edges) : edges[i].date = now - STATUS_WINDOW_HOURS
    /\ \E i \in 1..Len(edges) : edges[i].date > now
    /\ \A i \in 1..Len(edges) :
         edges[i].date \in {now - STATUS_WINDOW_HOURS} \cup {d \in Dates : d > now}

\* the snapshots of the list that lie inside the freshness window of the
\* rolling-window policy
InFreshWindow(i) ==
    /\ edges[i].date # NA
    /\ edges[i].date >= now - STATUS_WINDOW_HOURS
    /\ edges[i].date <= now

\* the case of C11: the query answered, some snapshot lies inside the
\* window, and every snapshot inside the window is an on-demand snapshot
OnlyOnDemandInWindow ==
    /\ ev \in RollingEvaluators
    /\ qres = "ok"
    /\ \E i \in 1..Len(edges) : InFreshWindow(i)
    /\ \A i \in 1..Len(edges) : InFreshWindow(i) => edges[i].od

\* C11 as stated: an object whose only snapshot inside the freshness window
\* is on-demand is compliant when count_on_demand_as_compliant is true and
\* not compliant when it is false.  The programs read no such setting, so
\* the verdict they give has to fit both values of the flag.
C11_OnDemandFlag ==
    \A count_on_demand_as_compliant \in BOOLEAN :
        OnlyOnDemandInWindow =>
            \A r \in seen : r.status = "YES" <=> count_on_demand_as_compliant

\* C11 amended: an object whose only snapshot inside the freshness window is
\* on-demand is compliant (the programs behave as with the flag fixed to true).
C11_OnDemandCounts ==
    OnlyOnDemandInWindow => \A r \in seen : r.status = "YES"

\* C11 witness: check_last_backup judged a list with an on-demand snapshot
\* inside the window and no scheduled one inside it.
C11_Witness ==
    /\ ev = "check_last_backup"
    /\ OnlyOnDemandInWindow
    /\ \E r \in seen : r.status = "YES"

\* the evaluators that scan the whole snapshot list
ScanningEvaluators == {"check_last_backup", "check_filesets", "combined"}

\* the snapshots with a parseable timestamp, and those not later than now
Dated == {i \in 1..Len(edges) : edges[i].date # NA}
NotFuture == {i \in Dated : edges[i].date <= now}

\* C12: snapshots with timestamp > now are excluded from every output: a
\* compliant verdict needs a snapshot that is not later than now, the reported
\* last backup is not later than now, and the retention count counts no
\* snapshot later than now.
C12_FutureExcluded ==
    ev \in ScanningEvaluators =>
        \A r \in seen :
            /\ r.status = "YES" => NotFuture # {}
            /\ r.last # NA => r.last <= now
            /\ r.count # NA => r.count <= Cardinality(NotFuture)

\* C13: the reported last backup is the maximum timestamp over all snapshots
\* of the object (over those not later than now, or over all parseable ones),
\* also when the verdict is NO; it is absent only if there is no such snapshot.
C13_LastBackupIsMax ==
    (ev \in ScanningEvaluators /\ qres = "ok") =>
        \A r \in seen :
            \/ r.last = (IF NotFuture = {} THEN NA
                         ELSE SetMax({edges[i].date : i \in NotFuture}))
            \/ r.last = (IF Dated = {} THEN NA
                         ELSE SetMax({edges[i].date : i \in Dated}))

\* the retention window of the configured run is at least as long as its
\* freshness window
RetentionCoversFreshness ==
    IF ev = "check_last_backup"
    THEN seenw.win.count_days * HoursPerDay >= seenw.win.status_hours
    ELSE seenw.win.count_days >= seenw.win.status_days

\* C14: whenever the retention window is at least as long as the freshness
\* window, an evaluation with verdict YES has a retention count of at least 1.
C14_CompliantIsCounted ==
    (seenw # <<>> /\ RetentionCoversFreshness /\ seenw.res.status = "YES")
        => seenw.res.count >= 1

\* C14 witness: a compliant evaluation whose freshness and retention windows
\* end at the same cutoff, with a snapshot outside them.
C14_Witness ==
    /\ seenw # <<>>
    /\ ev = "check_last_backup"
    /\ seenw.win.count_days * HoursPerDay = seenw.win.status_hours
    /\ seenw.res.status = "YES"
    /\ seenw.res.count >= 1
    /\ \E i \in Dated : edges[i].date < now - seenw.win.status_hours

(***************************************************************************)
(* Claims about the reconcile drivers (checked under Spec).                *)
(***************************************************************************)
\* C1: the remediation trigger is never invoked for a name whose evaluation
\* in the run is compliant: a trigger call implies the row's status is not YES.
C1_NoTriggerWhenCompliant ==
    /\ \A i \in 1..Len(rows) : trace[i].triggered => rows[i].status # "YES"
    /\ pc = "stale" => loc.row.status # "YES"

\* C1 witness: a combined run holds a stale row that was triggered and a
\* compliant row that was not.
C1_Witness ==
    /\ prog = "combined"
    /\ \E i \in 1..Len(rows) : trace[i].triggered /\ rows[i].status = "NO"
    /\ \E j \in 1..Len(rows) : rows[j].status = "YES" /\ ~trace[j].triggered

\* C2: within one run the remediation trigger is invoked at most once per
\* platform object id, whatever the list of requested names.
C2_AtMostOncePerObject ==
    \A i, j \in 1..Len(calls) : i # j => calls[i].id # calls[j].id

\* C3: for a non-compliant object the trigger is invoked only if the platform
\* has not reported the object as running; a reported running state means no
\* trigger call for that evaluation.
C3_NoTriggerWhenRunning ==
    /\ \A i \in 1..Len(rows) : trace[i].triggered => ~trace[i].running
    /\ pc = "stale" => ~loc.ob.running

\* C3 witness: a combined run left a stale object alone because the platform
\* reported it running, and triggered another stale object that was not.
C3_Witness ==
    /\ prog = "combined"
    /\ \E i \in 1..Len(rows) :
         /\ rows[i].in_rubrik = "YES" /\ rows[i].status = "NO"
         /\ trace[i].running /\ ~trace[i].triggered
    /\ \E j \in 1..Len(rows) :
         rows[j].status = "NO" /\ ~trace[j].running /\ trace[j].triggered

\* C4: when the snapshot query of a matched object fails or returns no usable
\* snapshot, the row is non-compliant (never YES) and the run goes on.
C4_QueryFailureNonCompliant ==
    /\ \A i \in 1..Len(rows) :
         (trace[i].queried /\ (trace[i].qfailed \/ ~trace[i].usable))
            => rows[i].status # "YES"
    /\ ~(pc = "crashed" /\ loc.ob.queried /\ loc.ob.qfailed /\ ~loc.ob.triggered)

\* the outcome the transport contract assigns to a response of the platform
ContractOutcome(resp) ==
    IF resp.kind = "http" /\ resp.code \in {200, 201, 202, 204} THEN "Triggered"
    ELSE IF /\ resp.kind = "http"
            /\ \/ resp.code = 409
               \/ IsSubstr(<<"r", "u", "n", "n", "i", "n", "g">>, Lower(resp.body))
               \/ IsSubstr(<<"i", "n", " ", "p", "r", "o", "g", "r", "e", "s", "s">>,
                           Lower(resp.body))
         THEN "AlreadyRunning"
    ELSE "Failed"

\* the outcomes a row of combined_backup_report shows
RecordedOutcomes(row) ==
    {o \in {"Triggered", "AlreadyRunning", "Failed"} :
        \/ o = "Triggered" /\ row.backup_triggered
        \/ o = "AlreadyRunning" /\ row.backup_running
        \/ o = "Failed" /\ row.backup_trigger_error # "None"}

\* the last row of the run is the row of a trigger attempt, and loc.resp is
\* the answer the platform gave to it
AfterAttempt ==
    /\ pc \in {"loop", "done"}
    /\ trace # <<>>
    /\ trace[Len(trace)].triggered

LastRow == rows[Len(rows)]

\* C16: every response to the trigger request is classified into exactly one
\* outcome: 200/201/202/204 gives Triggered; otherwise 409 or a body holding
\* "running" or "in progress" in any case gives AlreadyRunning; anything else,
\* a transport exception included, gives Failed with a reason.
C16_TriggerClassification ==
    (prog = "combined" /\ AfterAttempt) =>
        RecordedOutcomes(LastRow) = {ContractOutcome(loc.resp)}

\* C16 witness: a 500 answer whose body says "is Running" was classified as
\* already running, after an attempt that was recorded as failed.
C16_Witness ==
    /\ prog = "combined" /\ AfterAttempt
    /\ loc.resp.kind = "http" /\ loc.resp.code = 500
    /\ loc.resp.body # Lower(loc.resp.body)
    /\ LastRow.backup_running /\ ~LastRow.backup_triggered
    /\ \E j \in 1..(Len(rows) - 1) :
         trace[j].triggered /\ rows[j].backup_trigger_error # "None"

\* the outcome of a trigger attempt, from the answer the platform gave
AttemptOutcome(resp) ==
    IF prog = "combined" THEN ContractOutcome(resp)
    ELSE IF resp.kind = "created" THEN "Triggered"
    ELSE IF resp.kind = "errors" /\ resp.msg \in {"Snapshot already queued", "job in Progress"}
         THEN "AlreadyRunning"
    ELSE "Failed"

\* the outcome a reader takes from the remediation fields of a record
OutcomeShown(row) ==
    IF prog = "combined"
    THEN IF row.backup_triggered THEN "Triggered"
         ELSE IF row.backup_running THEN "AlreadyRunning"
         ELSE IF row.backup_trigger_error # "None" THEN "Failed"
         ELSE "NotAttempted"
    ELSE IF row.status = "TRIGGERED" THEN "Triggered"
         ELSE IF row.status = "IN_PROGRESS" THEN "AlreadyRunning"
         ELSE IF row.status = "FAILED" THEN "Failed"
         ELSE "NotAttempted"

C20_PerItemFailureContinues ==
    prog = "combined" =>
        /\ pc # "crashed"
        /\ pc = "done" => (servers = <<>> /\ report = rows)
        /\ \A i \in 1..Len(rows) :
               (trace[i].queried /\ trace[i].qfailed) => rows[i].status = "NO"
        /\ (AfterAttempt /\ ContractOutcome(loc.resp) = "Failed")
               => LastRow.backup_trigger_error # "None"

\* C21: every run that gets past the setup terminates, and on termination the
\* report artifact has been written with the rows of the run, even if every
\* remote call of the run failed.
C21_TerminatesWithReport == <>(pc = "done" /\ report = rows /\ servers = <<>>)

\* the record of a name that matched no object of the platform
UnmatchedRow(row) ==
    IF prog = "combined" THEN row.in_rubrik = "NO"
    ELSE row.note \in {"API Error", "VM Not Found"}

\* what the claim's state machine allows for one name, given what was asked of
\* the platform for it: an unmatched name is neither evaluated nor remediated,
\* remediation comes after evaluation, and a compliant name is not remediated
NameOrder(ob, row) ==
    /\ UnmatchedRow(row) => (~ob.queried /\ ~ob.triggered)
    /\ ob.triggered => ob.queried
    /\ ob.triggered => row.status # "YES"
    /\ row.server = ob.server

\* the names in progress and the names done followed the state machine
NamesInOrder ==
    /\ \A i \in 1..Len(rows) : NameOrder(trace[i], rows[i])
    /\ pc = "matched" => (~loc.ob.queried /\ ~loc.ob.triggered)
    /\ pc = "stale" => (loc.ob.queried /\ ~loc.ob.triggered)

\* every name has reached Done and its record is in the report
AllNamesDone == pc = "done" /\ servers = <<>> /\ report = rows

\* C23: each requested name goes Start -> Matched | Unmatched, Matched ->
\* Evaluated, Evaluated -> Done or Evaluated -> RemediationAttempted -> Done:
\* an unmatched name is never evaluated or remediated, remediation never
\* precedes evaluation, and every name eventually reaches Done with a record
\* emitted.
C23_NameStateMachine == [](NamesInOrder) /\ <>(AllNamesDone)

\* the three trigger fields of a row agree with each other
TriggerFieldsConsistent(r) ==
    /\ ~(r.backup_triggered /\ r.backup_running)
    /\ r.backup_triggered =>
           (r.in_rubrik = "YES" /\ r.status = "NO" /\ r.backup_trigger_error = "None")
    /\ r.backup_trigger_error # "None" => ~r.backup_triggered

\* C29: in every row of the combined report backup_triggered and
\* backup_running are never both true; backup_triggered implies in_rubrik YES,
\* status NO and no trigger error; a trigger error implies backup_triggered
\* false.
C29_TriggerFieldsConsistent ==
    prog = "combined" =>
        /\ \A i \in 1..Len(rows) : TriggerFieldsConsistent(rows[i])
        /\ \A i \in 1..Len(report) : TriggerFieldsConsistent(report[i])

\* C29 witness: the report of a run holds a row whose trigger was accepted and
\* a row whose trigger failed with an error.
C29_Witness ==
    /\ prog = "combined" /\ pc = "done"
    /\ \E i, j \in 1..Len(report) :
         /\ report[i].backup_triggered /\ ~report[i].backup_running
         /\ report[j].backup_trigger_error # "None" /\ ~report[j].backup_triggered
         /\ trace[i].triggered /\ trace[j].triggered

(***************************************************************************)
(* Claims about the ticket synchronizer (checked under SpecSync).          *)
(***************************************************************************)
\* C5: for every result record with a ticket, the update sets incident_state
\* to Resolved exactly when the record's status is YES and to Active
\* otherwise; no ticket is resolved from a non-compliant record.
C5_ResolvedIffCompliant ==
    \A i \in 1..Len(patches) :
        /\ patches[i].incident_state \in {"Resolved", "Active"}
        /\ patches[i].incident_state = "Resolved" <=> patches[i].rec.status = "YES"

\* C5 witness: one run resolved a ticket from a YES record and kept another
\* ticket update Active for a TRIGGERED record.
C5_Witness ==
    /\ \E i \in 1..Len(patches) :
         patches[i].rec.status = "YES" /\ patches[i].incident_state = "Resolved"
    /\ \E j \in 1..Len(patches) :
         patches[j].rec.status = "TRIGGERED" /\ patches[j].incident_state = "Active"

\* the ticket list holds a ticket with the node, compared in lower case
HasTicket(server) ==
    \E i \in 1..Len(tickets) : \E k \in 1..Len(tickets[i].nodes) :
        tickets[i].nodes[k] # <<>> /\ Lower(tickets[i].nodes[k]) = Lower(server)

Sent == {i \in 1..Len(trace) : trace[i].sent}

\* C18: a result record whose server has no entry in the ticket index is
\* skipped: no PATCH is sent for it, and it is counted neither as failed nor
\* as updated (the two counters count the records a PATCH was sent for).
C18_NoTicketIsSkipped ==
    prog = "update_servicenow" =>
        /\ \A i \in 1..Len(trace) : ~HasTicket(trace[i].rec.server) => ~trace[i].sent
        /\ Len(patches) = Cardinality(Sent)
        /\ updated + failed = Cardinality(Sent)

\* C18 witness: a finished run that skipped a record of a server without
\* ticket, after a PATCH for another record had failed.
C18_Witness ==
    /\ prog = "update_servicenow" /\ pc = "done"
    /\ \E i, j \in 1..Len(trace) :
         /\ i < j
         /\ trace[i].sent
         /\ trace[j].rec.server # <<>> /\ ~HasTicket(trace[j].rec.server)
         /\ ~trace[j].sent
    /\ failed = 1 /\ updated = 0

\* the answers with a 2xx status code
Success2xx == {c \in PatchResponses : c >= 200 /\ c < 300}

\* the last record processed got a PATCH, and loc holds the answer to it
AfterPatch ==
    /\ trace # <<>>
    /\ trace[Len(trace)].sent

\* C19: a PATCH that fails (non-2xx answer or network error) is counted as
\* failed and any 2xx answer as updated, and the loop goes on: every record
\* with a ticket gets its PATCH, whatever the earlier answers were.
C19_BestEffortLoop ==
    prog = "update_servicenow" =>
        /\ AfterPatch =>
               IF loc.response \in Success2xx
               THEN updated = loc.updated0 + 1 /\ failed = loc.failed0
               ELSE failed = loc.failed0 + 1 /\ updated = loc.updated0
        /\ \A i \in 1..Len(trace) :
               (trace[i].rec.server # <<>> /\ HasTicket(trace[i].rec.server))
                   => trace[i].sent
        /\ pc = "done" => results = <<>>

\* the positions of the tickets that name the server, letter case aside
TicketsNaming(server) ==
    {i \in 1..Len(tickets) :
        \E k \in 1..Len(tickets[i].nodes) :
            tickets[i].nodes[k] # <<>> /\ Lower(tickets[i].nodes[k]) = Lower(server)}

\* C30: each result record causes at most one PATCH, and the PATCH goes to the
\* sys_id of the last ticket of the list that names the record's server; the
\* earlier tickets naming the server get no update from the record.
C30_PatchGoesToLastTicket ==
    prog = "update_servicenow" =>
        /\ Len(patches) = Cardinality(Sent)
        /\ Len(patches) <= Len(trace)
        /\ \A p \in 1..Len(patches) :
               /\ TicketsNaming(patches[p].rec.server) # {}
               /\ patches[p].sys_id
                      = tickets[SetMax(TicketsNaming(patches[p].rec.server))].sys_id

\* C30 witness: two tickets name the same server in different letter case and
\* the record's only PATCH went to the later one.
C30_Witness ==
    /\ prog = "update_servicenow" /\ pc = "done"
    /\ Len(patches) = 1 /\ Len(trace) = 1
    /\ Cardinality(TicketsNaming(patches[1].rec.server)) = 2
    /\ patches[1].sys_id = tickets[2].sys_id
    /\ tickets[1].sys_id # tickets[2].sys_id
    /\ tickets[1].nodes # tickets[2].nodes

(***************************************************************************)
(* Claims about two runs in succession (checked under SpecTwice).          *)
(***************************************************************************)
BothRunsDone == pc = "done"

\* the timestamps of the snapshots the platform holds
TW_SnapshotDates ==
    IF prog = "combined"
    THEN UNION {{sn.date : sn \in Range(loc.snap[i].snaps)} : i \in TW_Ids} \ {NA}
    ELSE UNION {{sn.date : sn \in Range(all_objects[i].snaps)}
                   : i \in 1..Len(all_objects)} \ {NA}

\* a snapshot of date d counts as fresh at clock t: at most STALE_HOURS old
\* for combined_backup_report, of the day of t or the day before for
\* check_backup
FreshAt(d, t) ==
    IF prog = "combined" THEN d >= t - STALE_HOURS
    ELSE DayOf(t) - DayOf(d) \in {0, 1}

\* no snapshot turns from fresh to stale between the two runs
SameFreshness == \A d \in TW_SnapshotDates : FreshAt(d, trace[1]) <=> FreshAt(d, trace[2])

C22_WitnessCheckBackups ==
    /\ prog = "check_backup" /\ BothRunsDone /\ SameFreshness
    /\ DayOf(trace[2]) > DayOf(trace[1])
    /\ \E i \in 1..Len(report) : report[i].status = "YES"

\* the first call of check_backups has just returned: rows holds its records,
\* loc the outcome of the snapshot query of every entry that has an id
CheckBackupsReturned == prog = "check_backup" /\ pc = "second" /\ now = trace[1]

\* the latest snapshot timestamp the platform gave for entry i, NA if it gave
\* none (no usable id, a failed query, no snapshot)
LatestSnapshot(i) ==
    IF all_objects[i].snappable_id = NoId \/ loc[i] # "ok" \/ all_objects[i].snaps = <<>>
    THEN NA
    ELSE SetMax({sn.date : sn \in Range(all_objects[i].snaps)})

\* the candidates of name n in the group of object type ty, and those of
\* maximal weight among them
TypeGroup(n, ty) ==
    {i \in 1..Len(all_objects) :
        CK_match_weight(n, all_objects[i]) > 0 /\ all_objects[i].type = ty}
TopOfGroup(n, ty) ==
    {i \in TypeGroup(n, ty) :
        \A j \in TypeGroup(n, ty) :
            CK_match_weight(n, all_objects[j]) <= CK_match_weight(n, all_objects[i])}

\* entry w is the winner the tie-break rules name; the entries are encountered
\* in the order of all_objects
IsWinner(n, ty, w) ==
    /\ w \in TopOfGroup(n, ty)
    /\ \A j \in TopOfGroup(n, ty) : LatestSnapshot(j) <= LatestSnapshot(w)
    /\ (\A j \in TopOfGroup(n, ty) : LatestSnapshot(j) = NA)
           => \A j \in TopOfGroup(n, ty) : w <= j

FirstRunReturned == pc = "second" /\ now = trace[1]

\* the platform lists for name n an object of that name without usable id
ListedWithoutId(n) ==
    IF prog = "combined"
    THEN /\ loc.vm[n].kind = "ok"
         /\ \E k \in 1..Len(loc.vm[n].items) :
              loc.vm[n].items[k].id = NoId /\ Lower(loc.vm[n].items[k].name) = n
    ELSE \E i \in 1..Len(all_objects) :
              all_objects[i].snappable_id = NoId /\ CK_match_weight(n, all_objects[i]) > 0

\* the record a name without any match gets
NotFoundRecord(n) == IF prog = "combined" THEN CB_row_defaults(n) ELSE CK_not_found(n)

\* C25: a catalog object without usable id that matches a requested name is
\* not dropped: the name has a record that is not the NotFound record, and
\* when the record is that of the object it is non-compliant, without
\* snapshot date and without trigger.
C25_UnqueryableIsReported ==
    FirstRunReturned =>
        \A n \in Range(servers) :
            ListedWithoutId(n) =>
                /\ \E k \in 1..Len(rows) : rows[k].server = n
                /\ \A k \in 1..Len(rows) :
                       rows[k].server = n => rows[k] # NotFoundRecord(n)
                /\ prog = "combined" =>
                       \A k \in 1..Len(rows) :
                           rows[k].server = n =>
                               (rows[k].status = "NO" /\ ~rows[k].backup_triggered)

(***************************************************************************)
(* Claims about the normalization of names (checked under SpecNorm).       *)
(***************************************************************************)
\* C26: requested names and catalog names are normalized by the same function;
\* the function is idempotent, and the match weight of a requested name
\* against a catalog entry is unchanged when the name's letter case is changed
\* or a domain suffix is appended to it.
C26_NormalizationStable ==
    /\ pc \in {"renormalized", "done"} => rows[2] = rows[1]
    /\ pc = "done" => trace[2].weight = trace[1].weight
    /\ pc # "start" =>
           loc.entry.server_norm = CK_normalize_hostname(loc.entry.object_name)

(***************************************************************************)
(* Claims about the matchers                                               *)
(***************************************************************************)
MatchDone == prog \in {"check_backup", "check_filesets"} /\ pc = "done"

\* how often the run was asked for the name n
Occurrences(n) == Cardinality({i \in 1..Len(server_list) : server_list[i] = n})

\* the positions of the report that carry the name n
RowsOf(n) == {i \in 1..Len(report) : report[i].server = n}

\* n matches no entry of the catalog, by the matcher of the program that ran
Unmatched(n) ==
    \A i \in 1..Len(all_objects) :
        IF prog = "check_backup" THEN CK_match_weight(n, all_objects[i]) = 0
        ELSE ~CF_fuzzy_match(n, all_objects[i])

\* C6: when a run has returned, every requested name that matches no catalog
\* object has exactly one record per request, and that record says the object
\* is not on the platform and is not compliant.
C6_OneNotFoundRecord ==
    MatchDone =>
        \A n \in Range(server_list) :
            Unmatched(n) =>
                /\ Cardinality(RowsOf(n)) = Occurrences(n)
                /\ \A i \in RowsOf(n) :
                       report[i].in_rubrik = "NO" /\ report[i].status = "NO"

ObjectKinds == {"WINDOWS", "LINUX", "VM"}

\* some entry of kind k has a positive weight for n
HasCandidate(n, k) ==
    \E i \in 1..Len(all_objects) :
        all_objects[i].kind = k /\ CK_match_weight(n, all_objects[i]) > 0

\* C7, as stated: when check_backups has returned, every requested name has
\* one record per request for each of the three object types (Windows
\* fileset, Linux fileset, virtual machine) that has a positive-weight
\* candidate.
C7_OneRecordPerObjectType ==
    (prog = "check_backup" /\ pc = "done") =>
        \A n \in Range(server_list) :
            Cardinality({i \in RowsOf(n) : report[i].in_rubrik = "YES"})
                = Occurrences(n) * Cardinality({k \in ObjectKinds : HasCandidate(n, k)})

\* the tag a record of an object of kind k carries
TagOfKind(k) == IF k = "VM" THEN "VM" ELSE "FILESYSTEM"

\* C7, amended: when check_backups has returned, every requested name has one
\* record per request for each type tag (FILESYSTEM for Windows and Linux
\* filesets alike, VM for virtual machines) that has a positive-weight
\* candidate, and none for a tag without one.
C7_OneRecordPerTypeTag ==
    (prog = "check_backup" /\ pc = "done") =>
        \A n \in Range(server_list) :
            \A tag \in {"FILESYSTEM", "VM"} :
                Cardinality({i \in RowsOf(n) : report[i].type = tag})
                    = IF \E k \in ObjectKinds : TagOfKind(k) = tag /\ HasCandidate(n, k)
                      THEN Occurrences(n) ELSE 0

\* a finished run in which one name had Windows, Linux and VM candidates and
\* got a FILESYSTEM record and a VM record
C7_Witness ==
    /\ prog = "check_backup" /\ pc = "done"
    /\ \E n \in Range(server_list) :
         /\ \A k \in ObjectKinds : HasCandidate(n, k)
         /\ \E i, j \in RowsOf(n) : report[i].type = "FILESYSTEM" /\ report[j].type = "VM"

\* the weight the matching tiers assign, with the requested name n taken as
\* given in the path tier
StatedWeight(n, e) ==
    LET target == CK_normalize_hostname(n) IN
    IF target = CK_normalize_hostname(e.object_name) THEN 3
    ELSE IF IsSubstr(target, Lower(e.object_name)) THEN 2
    ELSE IF IsSubstr(n, e.path) THEN 1
    ELSE 0

\* the same tiers with the normalized name in the path tier, and weight 0
\* for a requested name whose normalized form is empty
NormalizedWeight(n, e) ==
    LET target == CK_normalize_hostname(n) IN
    IF target = <<>> THEN 0
    ELSE IF target = CK_normalize_hostname(e.object_name) THEN 3
    ELSE IF IsSubstr(target, Lower(e.object_name)) THEN 2
    ELSE IF IsSubstr(target, e.path) THEN 1
    ELSE 0

CatalogEntries == {all_objects[i] : i \in 1..Len(all_objects)}

\* C15, as stated: match_weight is 3 / 2 / 1 / 0 by the tiers "normalized
\* names equal", "normalized requested name inside the lowercase display
\* name", "requested name inside the path hint", and a record of check_backups
\* is built from candidates of positive weight only.
C15_WeightTiers ==
    prog = "check_backup" =>
        /\ \A n \in Range(server_list) : \A e \in CatalogEntries :
               CK_match_weight(n, e) = StatedWeight(n, e)
        /\ \A i \in 1..Len(rows) :
               IF rows[i].in_rubrik = "YES"
               THEN \E e \in CatalogEntries :
                        /\ e.object_name = rows[i].fileset_or_vm
                        /\ e.type = rows[i].type
                        /\ StatedWeight(rows[i].server, e) > 0
               ELSE \A e \in CatalogEntries : StatedWeight(rows[i].server, e) = 0

\* C15, amended: the path tier also tests the normalized requested name, and
\* a requested name whose normalized form is empty has weight 0.
C15_WeightTiersNormalized ==
    prog = "check_backup" =>
        /\ \A n \in Range(server_list) : \A e \in CatalogEntries :
               CK_match_weight(n, e) = NormalizedWeight(n, e)
        /\ \A i \in 1..Len(rows) :
               IF rows[i].in_rubrik = "YES"
               THEN \E e \in CatalogEntries :
                        /\ e.object_name = rows[i].fileset_or_vm
                        /\ e.type = rows[i].type
                        /\ NormalizedWeight(rows[i].server, e) > 0
               ELSE \A e \in CatalogEntries : NormalizedWeight(rows[i].server, e) = 0

\* C15 witness: a finished run of check_backups in which match_weight gave
\* each of the weights 3, 2, 1 and 0, the weight 1 for a name in upper case.
C15_Witness ==
    /\ prog = "check_backup" /\ pc = "done"
    /\ \A w \in 0..3 :
         \E n \in Range(server_list) : \E e \in CatalogEntries :
             CK_match_weight(n, e) = w
    /\ \E n \in Range(server_list) : \E e \in CatalogEntries :
         n # Lower(n) /\ CK_match_weight(n, e) = 1

\* C27: catalog objects are immutable after ingestion: no step of matching or
\* evaluating changes any field of any catalog entry.
C27_CatalogImmutable == [][all_objects' = all_objects]_vars

\* the entries of the catalog that the fileset matcher matches with name n
FilesetsMatching(n) ==
    {i \in 1..Len(all_objects) : CF_fuzzy_match(n, all_objects[i])}

\* C28: in the fileset checker every row carries the requested name whose
\* match produced it: a name has one row per request and matching fileset,
\* also when one fileset matches two different names of the run, and no row
\* carries anything else than a requested name.
C28_RowCarriesItsRequest ==
    (prog = "check_filesets" /\ pc = "done") =>
        /\ \A n \in Range(server_list) :
               Cardinality(RowsOf(n)) = Occurrences(n) * Cardinality(FilesetsMatching(n))
        /\ \A k \in 1..Len(report) : report[k].server \in Range(server_list)

====
